---- MODULE Spec2Model ----
(***************************************************************************)
(* hash-to-bucket (src/src/main.rs): a harness that assigns a dataset of   *)
(* 32-byte identifiers to BUCKETS buckets with a hasher keyed by the epoch, *)
(* and reports the statistics of the bucket counts of every epoch.         *)
(*                                                                         *)
(* Unsigned integers wider than TLC's machine integers (u64, u128) are     *)
(* little-endian sequences of bytes ("limbs"), so that widths, wrap-around *)
(* and the byte order of to_le_bytes / from_le_bytes are what the code     *)
(* has.  Strings are sequences of one-character strings.                   *)
(***************************************************************************)
EXTENDS Integers, Sequences, FiniteSets, TLC

VARIABLES
    pc,          \* position of main / of the function under study
    file,        \* ./addresses.json as found on disk
    addresses,   \* main: Vec<Pubkey2> after loading
    epoch,       \* main: loop variable of `for epoch in 0u64..EPOCHS`
    hasher,      \* do_test: the seeded hasher prototype (parameter `hasher`)
    buckets,     \* do_test / analyze_buckets: the bucket-count array
    next,        \* do_test: 1-based position of the next address of the loop
    assigned,    \* do_test: the values the local `bucket` took, in order
    clock,       \* the elapsed time the monotonic clock reports for each epoch
    timings,     \* main: HashMap name -> accumulated Duration (nanoseconds)
    out,         \* standard output, one element per line
    analysis,    \* analyze_buckets: the returned BucketAnalysis
    bucket_count,\* address_to_bucket_with_epoch_hasher: parameter `buckets`
    address,     \* address_to_bucket_with_epoch_hasher: parameter `address`
    index        \* address_to_bucket_with_epoch_hasher: the returned index

vars == <<pc, file, addresses, epoch, hasher, buckets, next, assigned, clock,
          timings, out, analysis, bucket_count, address, index>>

----------------------------------------------------------------------------
(* Program constants *)

BUCKETS == 100
EPOCHS == 1000
PUBKEY_BYTES == 32
MAX_BASE58_LEN == 44
KEY_LEN == 32
U64_BYTES == 8
U128_BYTES == 16

(* Bounds of the model *)

MaxAddresses == 2
FastNanos == 700000
SlowNanos == 1900000

----------------------------------------------------------------------------
(* Sequences *)

\* The recursive definitions of this module are functions, applied with
\* square brackets: a function's arguments are values, computed once.

Rep(x, n) == [i \in 1..n |-> x]

Reverse[s \in Seq(Nat)] == [i \in 1..Len(s) |-> s[Len(s) + 1 - i]]

\* s[lo] + ... + s[hi], by halves
SumRange[s \in Seq(Int), lo \in Nat, hi \in Nat] ==
    IF lo > hi THEN 0
    ELSE IF lo = hi THEN s[lo]
    ELSE SumRange[s, lo, (lo + hi) \div 2]
         + SumRange[s, ((lo + hi) \div 2) + 1, hi]

SumSeq[s \in Seq(Int)] == SumRange[s, 1, Len(s)]

Range(s) == { s[i] : i \in 1..Len(s) }

Min(S) == CHOOSE x \in S : \A y \in S : x <= y

----------------------------------------------------------------------------
(* Little-endian base-256 numerals *)

Byte == 0..255

Limbs == Seq(Nat)

\* n.to_le_bytes() for an n that fits in len bytes
ToLeBytes[n \in Nat, len \in Nat] ==
    IF len = 0 THEN <<>> ELSE <<n % 256>> \o ToLeBytes[n \div 256, len - 1]

\* the value of the numeral b[k..] (used only where it is known to be small)
FromLeBytesAt[b \in Limbs, k \in Nat] ==
    IF k > Len(b) THEN 0 ELSE b[k] + 256 * FromLeBytesAt[b, k + 1]

FromLeBytes[b \in Limbs] == FromLeBytesAt[b, 1]

\* `x as u128` and friends: zero-extension to len bytes
ZeroExtend(b, len) == b \o Rep(0, len - Len(b))

\* `x as usize` and friends: truncation to the len low bytes
Truncate(b, len) == SubSeq(b, 1, len)

IsZero(b) == \A i \in 1..Len(b) : b[i] = 0

\* a < c for numerals of the same length: they differ, and at the highest
\* digit where they differ a has the smaller one
LessLimbs[a \in Limbs, c \in Limbs] ==
    \E i \in 1..Len(a) :
        /\ a[i] < c[i]
        /\ \A j \in (i + 1)..Len(a) : a[j] = c[j]

\* propagate carries through the column sums cols[k..], with carry c into
\* digit k; the carry out of the last digit is dropped (wrap-around)
CarryFrom[cols \in Limbs, k \in Nat, c \in Nat] ==
    IF k > Len(cols) THEN <<>>
    ELSE <<(cols[k] + c) % 256>>
         \o CarryFrom[cols, k + 1, (cols[k] + c) \div 256]

Carry[cols \in Limbs] == CarryFrom[cols, 1, 0]

\* a + c, both of the same length, with one more digit for the carry
AddLimbs[a \in Limbs, c \in Limbs] ==
    Carry[[i \in 1..(Len(a) + 1) |-> IF i <= Len(a) THEN a[i] + c[i] ELSE 0]]

\* column k of the schoolbook product: the sum of a[i] * c[j], i + j = k + 1
ColumnSum[a \in Limbs, c \in Limbs, k \in Nat] ==
    SumSeq[[i \in 1..Len(a) |->
               IF k - i + 1 >= 1 /\ k - i + 1 <= Len(c)
               THEN a[i] * c[k - i + 1] ELSE 0]]

\* the exact product a * c, Len(a) + Len(c) digits
MulLimbs[a \in Limbs, c \in Limbs] ==
    Carry[[k \in 1..(Len(a) + Len(c)) |-> ColumnSum[a, c, k]]]

----------------------------------------------------------------------------
(* Pubkey::from_str, as used by de_stringified_pubkey *)

Base58Alphabet ==
    <<"1","2","3","4","5","6","7","8","9",
      "A","B","C","D","E","F","G","H","J","K","L","M","N","P","Q","R","S","T",
      "U","V","W","X","Y","Z",
      "a","b","c","d","e","f","g","h","i","j","k","m","n","o","p","q","r","s",
      "t","u","v","w","x","y","z">>

IsBase58(ch) == \E i \in 1..Len(Base58Alphabet) : Base58Alphabet[i] = ch

Base58Digit(ch) ==
    (CHOOSE i \in 1..Len(Base58Alphabet) : Base58Alphabet[i] = ch) - 1

\* acc * 58 + val on a little-endian numeral that grows as needed: the digits
\* from position k on, with carry val into digit k
MulAdd58[acc \in Limbs, k \in Nat, val \in Nat] ==
    IF k > Len(acc)
    THEN IF val = 0 THEN <<>>
         ELSE <<val % 256>> \o MulAdd58[acc, k, val \div 256]
    ELSE <<(acc[k] * 58 + val) % 256>>
         \o MulAdd58[acc, k + 1, (acc[k] * 58 + val) \div 256]

\* the numeral of the first n characters of s
Base58Accumulate[s \in Seq(STRING), n \in Nat] ==
    IF n = 0 THEN <<>>
    ELSE MulAdd58[Base58Accumulate[s, n - 1], 1, Base58Digit(s[n])]

LeadingOnes(s) ==
    CHOOSE n \in 0..Len(s) :
        /\ \A i \in 1..n : s[i] = "1"
        /\ n < Len(s) => s[n + 1] # "1"

\* bs58::decode(s).into_vec(): an error for a character outside the alphabet,
\* else the decoded bytes, big-endian, one zero byte for every leading '1'
Base58Decode[s \in Seq(STRING)] ==
    IF \E i \in 1..Len(s) : ~IsBase58(s[i]) THEN [ok |-> FALSE, vec |-> <<>>]
    ELSE [ok |-> TRUE,
          vec |-> Reverse[Base58Accumulate[s, Len(s)] \o Rep(0, LeadingOnes(s))]]

\* what bs58::decode returns
Decoded == [ok : BOOLEAN, vec : Limbs]

\* the length check of Pubkey::from_str on what bs58 returned
PubkeyFromVec[v \in Decoded] ==
    IF ~v.ok THEN [ok |-> FALSE, err |-> "Invalid"]
    ELSE IF Len(v.vec) # PUBKEY_BYTES
         THEN [ok |-> FALSE, err |-> "WrongSize"]
         ELSE [ok |-> TRUE, pubkey |-> v.vec]

\* Pubkey::from_str: Ok(bytes) or Err(kind)
PubkeyFromStr(s) ==
    IF Len(s) > MAX_BASE58_LEN THEN [ok |-> FALSE, err |-> "WrongSize"]
    ELSE PubkeyFromVec[Base58Decode[s]]

\* de_stringified_pubkey on one JSON value
DeStringifiedPubkey(v) ==
    IF v.type = "string" THEN PubkeyFromStr(v.s)
    ELSE [ok |-> FALSE, err |-> "wrong type"]

----------------------------------------------------------------------------
(* Hashers: Blake3Hasher, and any other implementation of std::hash::Hasher *)

\* blake3::Hasher::new_keyed(key) ... update(data) ... finalize(): the blake3
\* crate is an external dependency.  Its keyed hash is abstracted by a
\* deterministic mixing function of the key and of every byte written, in
\* order; it returns the 32 output bytes.
Absorb[bytes \in Limbs] ==
    SumSeq[[i \in 1..Len(bytes) |->
               ((bytes[i] + 1) * (i * i + 3 * i + 7)) % 65521]] % 65521

Expand[a \in Nat] == [j \in 1..32 |-> (((a + 97 * j) * 25173) \div 64) % 256]

Blake3Keyed(key, data) == Expand[Absorb[key \o data]]

\* key.chunks_mut(8) with chunk.copy_from_slice(&seed_bytes), chunk by chunk
FillChunks[key \in Limbs, seed_bytes \in Limbs, c \in Nat] ==
    IF c * U64_BYTES >= Len(key) THEN key
    ELSE FillChunks[
            [i \in 1..Len(key) |->
                IF i > c * U64_BYTES /\ i <= (c + 1) * U64_BYTES
                THEN seed_bytes[i - c * U64_BYTES] ELSE key[i]],
            seed_bytes, c + 1]

\* new_with_seed with only the first chunk of the key filled
NewWithSeedFirstChunk(seed) ==
    [kind |-> "blake3",
     key |-> ToLeBytes[seed, U64_BYTES] \o Rep(0, KEY_LEN - U64_BYTES),
     data |-> <<>>]

\* Blake3Hasher::new_with_seed
NewWithSeed(seed) ==
    [kind |-> "blake3",
     key |-> FillChunks[Rep(0, KEY_LEN), ToLeBytes[seed, U64_BYTES], 0],
     data |-> <<>>]

\* A hasher of another family, seen only through the Hasher trait: whatever it
\* is fed, finish() yields its digest
StubHasher(digest) == [kind |-> "stub", key |-> digest, data |-> <<>>]

\* Hasher::write
Write(h, bytes) == [h EXCEPT !.data = @ \o bytes]

\* Hasher::finish: for Blake3Hasher, u64::from_le_bytes of the first 8 bytes
\* of the output.  A u64 is kept as its 8 little-endian bytes.
Finish(h) ==
    IF h.kind = "blake3"
    THEN SubSeq(Blake3Keyed(h.key, h.data), 1, U64_BYTES)
    ELSE h.key

\* hasher.clone()
Clone(h) == h

----------------------------------------------------------------------------
(* address_to_bucket_with_epoch_hasher *)

U64Max == Rep(255, U64_BYTES)

\* (u64::MAX as u128) + 1
TwoPow64 ==
    Truncate(AddLimbs[ZeroExtend(U64Max, U128_BYTES),
                      ZeroExtend(<<1>>, U128_BYTES)], U128_BYTES)

\* u128 * u128: the low 128 bits of the product
MulU128(a, c) == Truncate(MulLimbs[a, c], U128_BYTES)

\* whether u128 * u128 overflows (a panic in a debug build, a wrap in release)
MulU128Overflows(a, c) ==
    \E p \in {MulLimbs[a, c]} :
        ~IsZero(SubSeq(p, U128_BYTES + 1, 2 * U128_BYTES))

\* u128 / u128 for a divisor that is a power of 256, which the divisor of
\* line 110 is: the quotient drops the k low digits of the dividend
DivU128[n \in Limbs, d \in Limbs] ==
    LET k == CHOOSE k \in 0..(U128_BYTES - 1) :
                 d = Rep(0, k) \o <<1>> \o Rep(0, U128_BYTES - 1 - k)
    IN  ZeroExtend(SubSeq(n, k + 1, U128_BYTES), U128_BYTES)

\* u128 / (u64::MAX as u128): with n = q * 2^64 + r, the quotient is
\* q + 1 when q + r >= 2^64 - 1 and q otherwise (q < 2^64 - 1)
DivByU64Max[n \in Limbs] ==
    LET q == SubSeq(n, U64_BYTES + 1, U128_BYTES)
        r == SubSeq(n, 1, U64_BYTES)
        s == AddLimbs[q, r]
        bump == s[U64_BYTES + 1] = 1 \/ Truncate(s, U64_BYTES) = U64Max
    IN  IF bump
        THEN Truncate(AddLimbs[ZeroExtend(q, U128_BYTES),
                               ZeroExtend(<<1>>, U128_BYTES)], U128_BYTES)
        ELSE ZeroExtend(q, U128_BYTES)

\* line 110 with the "+ 1" forgotten
ScaleToBucketU64Max(bk, hash) ==
    Truncate(DivByU64Max[MulU128(ZeroExtend(bk, U128_BYTES),
                                 ZeroExtend(hash, U128_BYTES))], U64_BYTES)

\* line 110: ((buckets as u128) * (hash as u128) / ((u64::MAX as u128) + 1))
\* as usize, on a 64-bit target
ScaleToBucket(bk, hash) ==
    Truncate(DivU128[MulU128(ZeroExtend(bk, U128_BYTES),
                             ZeroExtend(hash, U128_BYTES)),
                     TwoPow64], U64_BYTES)

ScaleOverflows(bk, hash) ==
    MulU128Overflows(ZeroExtend(bk, U128_BYTES), ZeroExtend(hash, U128_BYTES))

AddressToBucketWithEpochHasher(bk, h, addr) ==
    ScaleToBucket(bk, Finish(Write(h, addr)))

----------------------------------------------------------------------------
(* analyze_buckets *)

\* buckets.sort(): the ascending rearrangement, value by value
SortedFrom[vals \in SUBSET Nat, s \in Seq(Nat)] ==
    IF vals = {} THEN <<>>
    ELSE Rep(Min(vals), Cardinality({i \in 1..Len(s) : s[i] = Min(vals)}))
         \o SortedFrom[vals \ {Min(vals)}, s]

NoSort(s) == s

SortAscending(s) == SortedFrom[Range(s), s]

EmptyMap == [k \in {} |-> 0]

\* the counts of two stretches of the array, put together
MergeCounts(l, r) ==
    [k \in DOMAIN l \cup DOMAIN r |->
        (IF k \in DOMAIN l THEN l[k] ELSE 0)
        + (IF k \in DOMAIN r THEN r[k] ELSE 0)]

\* lines 86-91: freq.entry(*bucket).and_modify(|f| *f += 1).or_insert(1)
\* over s[lo..hi], by halves: a key's count is the sum of its counts
CountInto[s \in Seq(Nat), lo \in Nat, hi \in Nat] ==
    IF lo > hi THEN EmptyMap
    ELSE IF lo = hi THEN [k \in {s[lo]} |-> 1]
    ELSE CHOOSE m \in { MergeCounts(l, r) :
                          l \in {CountInto[s, lo, (lo + hi) \div 2]},
                          r \in {CountInto[s, ((lo + hi) \div 2) + 1, hi]} } :
             TRUE

\* the iteration orders a HashMap may have: the enumerations of its keys
Orders(keys) ==
    { o \in [1..Cardinality(keys) -> keys] :
        \A i, j \in DOMAIN o : o[i] = o[j] => i = j }

\* line 92: freq.iter().collect::<Vec<_>>() in iteration order `order`
Collect(freq, order) == [i \in 1..Len(order) |-> <<order[i], freq[order[i]]>>]

Entries == Seq(Seq(Nat))

\* line 93: freq.sort_by_key(|(_, v)| *v), a stable sort: insert each entry
\* after the entries whose key is not greater
InsertByValue[sorted \in Entries, e \in Seq(Nat)] ==
    IF sorted = <<>> THEN <<e>>
    ELSE IF Head(sorted)[2] <= e[2]
         THEN <<Head(sorted)>> \o InsertByValue[Tail(sorted), e]
         ELSE <<e>> \o sorted

SortByValueFrom[sorted \in Entries, rest \in Entries] ==
    IF rest = <<>> THEN sorted
    ELSE SortByValueFrom[InsertByValue[sorted, Head(rest)], Tail(rest)]

SortByValue(entries) == SortByValueFrom[<<>>, entries]

FirstEntry(entries) == entries[1]

\* line 94: freq.last()
LastEntry(entries) == entries[Len(entries)]

MedianLower(s) == s[BUCKETS \div 2]

\* line 85: buckets[BUCKETS / 2], with 0-based indexing
Median(s) == s[(BUCKETS \div 2) + 1]

Abs(x) == IF x < 0 THEN -x ELSE x

\* line 95 with the signed difference
SignedDeviationSum(s, mean) == SumSeq[[i \in 1..Len(s) |-> s[i] - mean]]

\* line 95: the sum of (*count as f64 - mean as f64).abs(); every term and the
\* sum are integers below 2^53, which f64 holds exactly
AbsDeviationSum(s, mean) == SumSeq[[i \in 1..Len(s) |-> Abs(s[i] - mean)]]

\* lines 80-95 on the sorted array s, for the iteration order `order` of the
\* frequency map.  std_dev is the f64 quotient num / den, kept as the pair.
AnalyzeSorted[s \in Seq(Nat), order \in Seq(Nat)] ==
    CHOOSE a \in
        { [min |-> s[1], max |-> s[BUCKETS], spread |-> s[BUCKETS] - s[1],
           mean |-> mean, median |-> Median(s),
           mode |-> mode[1], mode_count |-> mode[2],
           std_dev |-> [num |-> AbsDeviationSum(s, mean), den |-> BUCKETS]] :
             mean \in {SumSeq[s] \div BUCKETS},
             mode \in { LastEntry(SortByValue(Collect(freq, order))) :
                           freq \in {CountInto[s, 1, Len(s)]} } } : TRUE

\* analyze_buckets: the array is sorted where it lies, then analysed
AnalyzeBuckets(b, order) ==
    \* line 79 and the rest
    CHOOSE r \in { [buckets |-> s, analysis |-> AnalyzeSorted[s, order]] :
                     s \in {SortAscending(b)} } : TRUE

----------------------------------------------------------------------------
(* do_test *)

BucketsUsize == ToLeBytes[BUCKETS, U64_BYTES]

\* line 118 with the prototype handed over instead of a clone of it
AssignSharingHasher(h, addr) ==
    [hasher |-> Write(h, addr),
     bucket |-> AddressToBucketWithEpochHasher(BucketsUsize, h, addr)]

\* line 118: the callee gets a clone, the prototype stays as it is
Assign(h, addr) ==
    [hasher |-> h,
     bucket |-> AddressToBucketWithEpochHasher(BucketsUsize, Clone(h), addr)]

----------------------------------------------------------------------------
(* main: the dataset file *)

Ones(n) == Rep("1", n)

SystemProgram == Ones(32)
VoteProgram == <<"V", "o", "t", "e">> \o Ones(39)

ValidStrings == {SystemProgram, VoteProgram}

JsonString(chars) == [type |-> "string", s |-> chars]

\* elements that are not a string decoding to 32 bytes
BadElements ==
    { JsonString(Ones(31)),                          \* 31 bytes
      JsonString(<<"V", "o", "t", "e">> \o Ones(38)), \* 31 bytes
      JsonString(Ones(45)),                          \* longer than 44 characters
      JsonString(<<"V", "0", "t", "e">> \o Ones(39)), \* '0' is not base 58
      [type |-> "number", s |-> <<>>],
      [type |-> "array", s |-> <<>>] }

RECURSIVE SeqsUpTo(_, _)
SeqsUpTo(S, n) ==
    IF n = 0 THEN {<<>>}
    ELSE LET shorter == SeqsUpTo(S, n - 1)
         IN  shorter \cup { Append(q, x) : q \in shorter, x \in S }

JsonArray(items) == [exists |-> TRUE, wellformed |-> TRUE, array |-> TRUE,
                     items |-> items]

GoodFiles ==
    { JsonArray([i \in 1..Len(q) |-> JsonString(q[i])]) :
        q \in SeqsUpTo(ValidStrings, MaxAddresses) }

BadFiles ==
    { [exists |-> FALSE, wellformed |-> FALSE, array |-> FALSE, items |-> <<>>],
      [exists |-> TRUE, wellformed |-> FALSE, array |-> FALSE, items |-> <<>>],
      [exists |-> TRUE, wellformed |-> TRUE, array |-> FALSE, items |-> <<>>] }
    \cup { JsonArray(<<e>>) : e \in BadElements }
    \cup { JsonArray(<<JsonString(VoteProgram), e>>) : e \in BadElements }
    \cup { JsonArray(<<e, JsonString(VoteProgram)>>) : e \in BadElements }

Files == GoodFiles \cup BadFiles

\* a deserialization that drops the elements that fail
RECURSIVE DeserializeItemsSkipping(_, _)
DeserializeItemsSkipping(items, acc) ==
    IF items = <<>> THEN [ok |-> TRUE, addresses |-> acc]
    ELSE LET r == DeStringifiedPubkey(Head(items))
         IN  DeserializeItemsSkipping(
                 Tail(items), IF r.ok THEN Append(acc, r.pubkey) ELSE acc)

\* serde_json::from_reader::<_, Vec<Pubkey2>>: the first element that fails
\* fails the whole; a text that is not JSON, or not an array, fails too
RECURSIVE DeserializeItems(_, _)
DeserializeItems(items, acc) ==
    IF items = <<>> THEN [ok |-> TRUE, addresses |-> acc]
    ELSE LET r == DeStringifiedPubkey(Head(items))
         IN  IF r.ok THEN DeserializeItems(Tail(items), Append(acc, r.pubkey))
             ELSE [ok |-> FALSE, addresses |-> <<>>]

FromReader(f) ==
    IF ~f.wellformed \/ ~f.array THEN [ok |-> FALSE, addresses |-> <<>>]
    ELSE DeserializeItems(f.items, <<>>)

----------------------------------------------------------------------------
(* main: clock, timings and output *)

NANOS_PER_MICRO == 1000

\* The monotonic clock is the environment's: the time one epoch's assignment
\* loop takes is drawn from a family of traces, a slow epoch every `period`.
ClockTraces == { [period |-> p] : p \in {2, 3} }

\* lines 116 and 121: Instant::now().duration_since(start), in nanoseconds
Elapsed(c, e) == IF e % c.period = 0 THEN SlowNanos ELSE FastNanos

\* lines 133-157: the enabled algorithms, in evaluation order
Algorithms == <<"blake3">>

\* lines 158-160: timings.entry(name).and_modify(|v| *v += *time).or_insert(*time)
AddTiming(t, name, time) ==
    IF name \in DOMAIN t
    THEN [t EXCEPT ![name] = @ + time]
    ELSE [k \in DOMAIN t \cup {name} |-> IF k = name THEN time ELSE t[k]]

HeaderLine ==
    [kind |-> "header",
     text |-> "epoch,min,max,spread,mean,median,mode,mode_count,std_dev"]

\* line 122: println!("{epoch},{}", analysis)
RecordLine(e, a) == [kind |-> "record", epoch |-> e, analysis |-> a]

\* line 165: println!("{name}: {}", (time / (EPOCHS as u32)).as_micros())
SummaryLine(name, total) ==
    [kind |-> "summary", name |-> name,
     micros |-> (total \div EPOCHS) \div NANOS_PER_MICRO]

\* line 132 with an inclusive range
EpochInRangeInclusive(e) == e <= EPOCHS

\* line 132: for epoch in 0u64..EPOCHS
EpochInRange(e) == e < EPOCHS

----------------------------------------------------------------------------
(* The program *)

NoRecord == [min |-> 0, max |-> 0, spread |-> 0, mean |-> 0, median |-> 0,
             mode |-> 0, mode_count |-> 0, std_dev |-> [num |-> 0, den |-> 1]]

Idle ==
    /\ analysis = NoRecord
    /\ bucket_count = <<>>
    /\ address = <<>>
    /\ index = <<>>

Init ==
    /\ pc = "open"
    /\ file \in Files
    /\ clock \in ClockTraces
    /\ addresses = <<>>
    /\ epoch = 0
    /\ hasher = NewWithSeed(0)
    /\ buckets = <<>>
    /\ next = 1
    /\ assigned = <<>>
    /\ timings = EmptyMap
    /\ out = <<>>
    /\ Idle

\* line 127: File::open("./addresses.json").unwrap()
Open ==
    /\ pc = "open"
    /\ pc' = IF file.exists THEN "read" ELSE "panicked"
    /\ UNCHANGED <<file, addresses, epoch, hasher, buckets, next, assigned,
                   clock, timings, out, analysis, bucket_count, address, index>>

\* lines 128-130: serde_json::from_reader(reader).unwrap(); the timings map
Read ==
    /\ pc = "read"
    /\ \E r \in {FromReader(file)} :
          /\ pc' = IF r.ok THEN "header" ELSE "panicked"
          /\ addresses' = r.addresses
    /\ timings' = EmptyMap
    /\ UNCHANGED <<file, epoch, hasher, buckets, next, assigned, clock, out,
                   analysis, bucket_count, address, index>>

\* line 131: the header line; line 132: the epoch loop starts at 0
PrintHeader ==
    /\ pc = "header"
    /\ out' = Append(out, HeaderLine)
    /\ epoch' = 0
    /\ pc' = "epoch"
    /\ UNCHANGED <<file, addresses, hasher, buckets, next, assigned, clock,
                   timings, analysis, bucket_count, address, index>>

\* lines 132, 154, 114-116: the next epoch: a hasher seeded with the epoch,
\* BUCKETS counters at zero
BeginTest ==
    /\ pc = "epoch"
    /\ EpochInRange(epoch)
    /\ hasher' = NewWithSeed(epoch)
    /\ buckets' = Rep(0, BUCKETS)
    /\ next' = 1
    /\ assigned' = <<>>
    /\ pc' = "assign"
    /\ UNCHANGED <<file, addresses, epoch, clock, timings, out, analysis,
                   bucket_count, address, index>>

\* line 119 with an assignment in place of the increment
SetToOne(b, i) == [b EXCEPT ![i + 1] = 1]

\* line 119: buckets[bucket] += 1, with 0-based indexing
Increment(b, i) == [b EXCEPT ![i + 1] = @ + 1]

\* lines 117-120: one iteration of the assignment loop; buckets[bucket]
\* panics when bucket is out of bounds
AssignNext ==
    /\ pc = "assign"
    /\ next <= Len(addresses)
    /\ \E r \in {Assign(hasher, addresses[next])} :
          \E inside \in {LessLimbs[r.bucket, BucketsUsize]} :
             /\ hasher' = r.hasher
             /\ assigned' = Append(assigned, r.bucket)
             /\ buckets' =
                   IF inside
                   THEN Increment(buckets, FromLeBytes[r.bucket])
                   ELSE buckets
             /\ pc' = IF inside THEN "assign" ELSE "panicked"
    /\ next' = next + 1
    /\ UNCHANGED <<file, addresses, epoch, clock, timings, out, analysis,
                   bucket_count, address, index>>

\* lines 121-123 and 158-160: the loop is over: the elapsed time, the
\* analysis and its line, the time added to the algorithm's total
FinishTest ==
    /\ pc = "assign"
    /\ next > Len(addresses)
    /\ \E order \in Orders(Range(buckets)) :
          \E r \in {AnalyzeBuckets(buckets, order)} :
             /\ buckets' = r.buckets
             /\ analysis' = r.analysis
             /\ out' = Append(out, RecordLine(epoch, r.analysis))
    /\ timings' = AddTiming(timings, Algorithms[1], Elapsed(clock, epoch))
    /\ epoch' = epoch + 1
    /\ pc' = "epoch"
    /\ UNCHANGED <<file, addresses, hasher, next, assigned, clock,
                   bucket_count, address, index>>

\* lines 164-166: after the last epoch, one line per entry of timings, in
\* the map's iteration order
PrintSummary ==
    /\ pc = "epoch"
    /\ ~EpochInRange(epoch)
    /\ \E order \in Orders(DOMAIN timings) :
          out' = out \o [i \in 1..Len(order) |->
                            SummaryLine(order[i], timings[order[i]])]
    /\ pc' = "done"
    /\ UNCHANGED <<file, addresses, epoch, hasher, buckets, next, assigned,
                   clock, timings, analysis, bucket_count, address, index>>

Next ==
    \/ Open
    \/ Read
    \/ PrintHeader
    \/ BeginTest
    \/ AssignNext
    \/ FinishTest
    \/ PrintSummary

Spec == Init /\ [][Next]_vars

\* the program is sequential and runs to its end: a step that can be taken is
\* taken
FairSpec == Spec /\ WF_vars(Next)

----------------------------------------------------------------------------
(* address_to_bucket_with_epoch_hasher on its own: any bucket count of at   *)
(* least one, any hasher, any identifier                                    *)

\* 2^k as a u64, for k < 64
PowerOfTwo(k) ==
    [i \in 1..U64_BYTES |-> IF i = (k \div 8) + 1 THEN 2 ^ (k % 8) ELSE 0]

\* n - 1 for a u64 n > 0: the low zero bytes borrow
Pred(n) ==
    LET low == CHOOSE i \in 1..Len(n) : n[i] # 0 /\ \A j \in 1..(i - 1) : n[j] = 0
    IN  [i \in 1..Len(n) |->
            IF i < low THEN 255 ELSE IF i = low THEN n[i] - 1 ELSE n[i]]

\* 0, 2^64 - 1, 2^64 - 2, two values in between, and the greatest digest of
\* bucket 0 of BUCKETS buckets, floor(2^64 / 100), with its successor
Digests ==
    { Rep(0, U64_BYTES), U64Max, Pred(U64Max),
      <<21, 205, 91, 7, 0, 0, 0, 0>>, <<0, 0, 0, 0, 0, 0, 0, 1>>,
      <<92, 143, 194, 245, 40, 92, 143, 2>>,
      <<93, 143, 194, 245, 40, 92, 143, 2>> }
    \cup { PowerOfTwo(k) : k \in {0, 1, 32, 63} }
    \cup { Pred(PowerOfTwo(k)) : k \in {32, 63} }

BucketCounts ==
    { BucketsUsize, U64Max, ToLeBytes[3, U64_BYTES], ToLeBytes[255, U64_BYTES] }
    \cup { PowerOfTwo(k) : k \in {0, 1, 8, 32, 63} }

Identifiers == { PubkeyFromStr(q).pubkey : q \in ValidStrings }

MainIdle ==
    /\ file = [exists |-> FALSE, wellformed |-> FALSE, array |-> FALSE,
               items |-> <<>>]
    /\ clock = [period |-> 2]
    /\ addresses = <<>>
    /\ epoch = 0
    /\ next = 1
    /\ assigned = <<>>
    /\ timings = EmptyMap
    /\ out = <<>>

InitAssign ==
    /\ pc = "assign_call"
    /\ bucket_count \in BucketCounts
    /\ hasher \in { StubHasher(d) : d \in Digests }
                  \cup { NewWithSeed(e) : e \in {0, EPOCHS - 1} }
    /\ address \in Identifiers
    /\ index = <<>>
    /\ buckets = <<>>
    /\ analysis = NoRecord
    /\ MainIdle

\* lines 107-111
AssignCall ==
    /\ pc = "assign_call"
    /\ index' = AddressToBucketWithEpochHasher(bucket_count, hasher, address)
    /\ pc' = "assign_done"
    /\ UNCHANGED <<file, addresses, epoch, hasher, buckets, next, assigned,
                   clock, timings, out, analysis, bucket_count, address>>

NextAssign == AssignCall

SpecAssign == InitAssign /\ [][NextAssign]_vars

----------------------------------------------------------------------------
(* analyze_buckets on its own: arrays of BUCKETS counts                     *)

MaxCount == 3

\* the sizes of the first two of three blocks of equal counts
BlockSizes == {0, 1, 2, 33, 49, 50, 51, 98, 99, 100}

\* a fixed shuffle of the positions, so that the arrays are not sorted
Scatter(i) == (((i - 1) * 37) % BUCKETS) + 1

\* a counts of x, b counts of y, the rest z, scattered
BlockArray(x, a, y, b, z) ==
    [i \in 1..BUCKETS |->
        IF Scatter(i) <= a THEN x
        ELSE IF Scatter(i) <= a + b THEN y ELSE z]

CountArrays ==
    { BlockArray(x, a, y, b, z) :
        x \in 0..MaxCount, y \in 0..MaxCount, z \in 0..MaxCount,
        a \in BlockSizes, b \in { n \in BlockSizes : n <= BUCKETS \div 2 } }

InitAnalyze ==
    /\ pc = "analyze_call"
    /\ buckets \in CountArrays
    /\ analysis = NoRecord
    /\ hasher = NewWithSeed(0)
    /\ bucket_count = <<>>
    /\ address = <<>>
    /\ index = <<>>
    /\ MainIdle

\* lines 78-98, for every iteration order of the frequency map
AnalyzeCall ==
    /\ pc = "analyze_call"
    /\ \E order \in Orders(Range(buckets)) :
          \E r \in {AnalyzeBuckets(buckets, order)} :
             /\ buckets' = r.buckets
             /\ analysis' = r.analysis
    /\ pc' = "analyze_done"
    /\ UNCHANGED <<file, addresses, epoch, hasher, next, assigned, clock,
                   timings, out, bucket_count, address, index>>

NextAnalyze == AnalyzeCall

SpecAnalyze == InitAnalyze /\ [][NextAnalyze]_vars

----------------------------------------------------------------------------
(* Properties *)

\* the number of elements of s equal to v
Occurrences(s, v) == Cardinality({ i \in 1..Len(s) : s[i] = v })

IsU64(n) == Len(n) = U64_BYTES /\ \A i \in 1..Len(n) : n[i] \in Byte

\* the digest the hasher of a call yields for its identifier
CallDigest == Finish(Write(hasher, address))

\* C1: for every identifier, every bucket count of at least one and every
\* 64-bit digest, 0 included and 2^64 - 1 included, the index returned by
\* address_to_bucket_with_epoch_hasher is a usize below the bucket count, it
\* is floor(bucket_count * digest / 2^64), that is
\* index * 2^64 <= bucket_count * digest < index * 2^64 + 2^64 for the exact
\* product, and the 128-bit multiplication does not overflow.
C1_IndexInRange ==
    pc = "assign_done" =>
        /\ IsU64(index)
        /\ LessLimbs[index, bucket_count]
        /\ ~ScaleOverflows(bucket_count, CallDigest)
        /\ LET exact == MulLimbs[bucket_count, CallDigest]
               floor == Rep(0, U64_BYTES) \o index
           IN  /\ ~LessLimbs[exact, floor]
               /\ LessLimbs[ZeroExtend(exact, U128_BYTES + 1),
                            AddLimbs[floor, TwoPow64]]

\* a call with BUCKETS buckets and the digest 2^64 - 1, which lands in the
\* last bucket
C1_Witness ==
    /\ pc = "assign_done"
    /\ bucket_count = BucketsUsize
    /\ CallDigest = U64Max
    /\ FromLeBytes[index] = BUCKETS - 1

\* C2: in every epoch the array starts as BUCKETS zeros, at every point of
\* the assignment loop the counters sum to the number of identifiers
\* processed so far, and when the loop is over, and after the analysis, they
\* sum to the number of identifiers of the dataset.
C2_SumIsProcessed ==
    /\ pc = "assign" =>
          /\ Len(buckets) = BUCKETS
          /\ \A i \in 1..BUCKETS : buckets[i] >= 0
          /\ SumSeq[buckets] = next - 1
          /\ next = 1 => buckets = Rep(0, BUCKETS)
          /\ next <= Len(addresses) + 1
    /\ (pc \in {"epoch", "done"} /\ epoch > 0) =>
          /\ Len(buckets) = BUCKETS
          /\ SumSeq[buckets] = Len(addresses)

\* the loop of the last epoch is over for a dataset of two identifiers
C2_Witness ==
    /\ pc = "assign"
    /\ epoch = EPOCHS - 1
    /\ Len(addresses) = 2
    /\ next = 3
    /\ SumSeq[buckets] = 2

\* C3: the record analyze_buckets returns for an array of BUCKETS counts has
\* min <= mean <= max, min <= median <= max and spread = max - min >= 0.
C3_Ordered ==
    pc = "analyze_done" =>
        /\ analysis.min <= analysis.mean
        /\ analysis.mean <= analysis.max
        /\ analysis.min <= analysis.median
        /\ analysis.median <= analysis.max
        /\ analysis.spread = analysis.max - analysis.min
        /\ analysis.spread >= 0

\* an analysis where the mean and the median lie strictly between min and max
C3_Witness ==
    /\ pc = "analyze_done"
    /\ analysis.min < analysis.mean
    /\ analysis.mean < analysis.max
    /\ analysis.min < analysis.median
    /\ analysis.median < analysis.max

\* the key new_with_seed derives: the 8 little-endian bytes of the seed,
\* four times
TiledKey(seed) ==
    [i \in 1..KEY_LEN |-> ToLeBytes[seed, U64_BYTES][((i - 1) % U64_BYTES) + 1]]

\* C4: the hasher of an epoch is keyed with the seed's 8 little-endian bytes
\* tiled four times; every index the loop obtained is the index a second
\* hasher constructed with the same seed yields for the same identifier and
\* the same bucket count, and two occurrences of one identifier obtained the
\* same index.
C4_Deterministic ==
    pc = "assign" =>
        /\ hasher.key = TiledKey(epoch)
        /\ \A k \in 1..Len(assigned) :
              assigned[k] = AddressToBucketWithEpochHasher(
                                BucketsUsize, NewWithSeed(epoch), addresses[k])
        /\ \A j, k \in 1..Len(assigned) :
              addresses[j] = addresses[k] => assigned[j] = assigned[k]

\* an identifier was assigned twice in an epoch whose seed has two non-zero
\* bytes
C4_Witness ==
    /\ pc = "assign"
    /\ epoch = 513
    /\ Len(assigned) = 2
    /\ addresses[1] = addresses[2]
    /\ assigned[1] = assigned[2]

\* the greatest number of elements of s sharing one value
MaxFrequency(s) ==
    CHOOSE n \in 1..Len(s) :
        /\ \E v \in Range(s) : Occurrences(s, v) = n
        /\ \A v \in Range(s) : Occurrences(s, v) <= n

\* C5: for every array of BUCKETS counts and every iteration order of the
\* frequency map, mode_count is the greatest number of buckets sharing one
\* count, mode is a count that occurs exactly mode_count times, and a count
\* that occurs strictly more often than every other is the mode.
C5_Mode ==
    [][(pc = "analyze_call" /\ pc' = "analyze_done") =>
          /\ analysis'.mode_count = MaxFrequency(buckets)
          /\ Occurrences(buckets, analysis'.mode) = analysis'.mode_count
          /\ \A v \in Range(buckets) :
                (\A w \in Range(buckets) \ {v} :
                    Occurrences(buckets, w) < Occurrences(buckets, v))
                => analysis'.mode = v]_vars

\* an analysis of an array where two counts tie for the greatest frequency
\* and the greater of the two was reported
C5_Witness ==
    /\ pc = "analyze_done"
    /\ analysis.mode_count = BUCKETS \div 2
    /\ Cardinality(Range(buckets)) = 2
    /\ analysis.mode = analysis.max
    /\ analysis.max > analysis.min

\* the load the claim calls successful: the file opens, holds a JSON array,
\* and every element is a string that decodes to PUBKEY_BYTES bytes
DecodesToPubkey(v) ==
    /\ v.type = "string"
    /\ \E d \in {Base58Decode[v.s]} : d.ok /\ Len(d.vec) = PUBKEY_BYTES

LoadSucceeds(f) ==
    /\ f.exists
    /\ f.wellformed
    /\ f.array
    /\ \A i \in 1..Len(f.items) : DecodesToPubkey(f.items[i])

\* C6: when loading the dataset fails, nothing is ever written to the
\* standard output (no header, no record, no summary) and no epoch is
\* processed.
C6_NoOutputOnFailure ==
    LoadSucceeds(file) \/
        /\ out = <<>>
        /\ pc \in {"open", "read", "panicked"}
        /\ epoch = 0
        /\ buckets = <<>>

\* the run has aborted on a file whose second element decodes to 31 bytes
C6_Witness ==
    /\ pc = "panicked"
    /\ file.exists /\ file.wellformed /\ file.array
    /\ Len(file.items) = 2
    /\ DecodesToPubkey(file.items[1])
    /\ file.items[2].type = "string"
    /\ Base58Decode[file.items[2].s].ok
    /\ Len(Base58Decode[file.items[2].s].vec) = PUBKEY_BYTES - 1
    /\ out = <<>>

\* the average the summary line of an algorithm holds: the elapsed times of
\* all epochs, divided by the epoch count, in whole microseconds
ExpectedMicros ==
    (SumSeq[[e \in 1..EPOCHS |-> Elapsed(clock, e - 1)]] \div EPOCHS)
        \div NANOS_PER_MICRO

\* the lines written so far are the beginning of: the header, the records of
\* epochs 0, 1, ... in ascending order, one per epoch, then the summary
OutputInOrder ==
    /\ Len(out) <= 1 + EPOCHS + Len(Algorithms)
    /\ \A i \in 1..Len(out) :
          IF i = 1 THEN out[i] = HeaderLine
          ELSE IF i <= 1 + EPOCHS
               THEN out[i].kind = "record" /\ out[i].epoch = i - 2
               ELSE /\ out[i].kind = "summary"
                    /\ out[i].name = Algorithms[i - 1 - EPOCHS]
                    /\ out[i].micros = ExpectedMicros
                    /\ pc = "done"
    /\ pc \in {"epoch", "assign"} => Len(out) = 1 + epoch
    /\ pc = "done" => Len(out) = 1 + EPOCHS + Len(Algorithms)
    /\ epoch <= EPOCHS
    /\ pc = "assign" => epoch < EPOCHS

\* C7: after a successful load the run terminates, and its output is the
\* header, then exactly one record per epoch for the epochs 0 to EPOCHS - 1
\* in ascending order (epoch EPOCHS is never processed), then, after all
\* epochs, one summary line for the enabled algorithm holding its accumulated
\* time divided by the epoch count.
C7_OutputOrder ==
    /\ []OutputInOrder
    /\ (pc = "header") ~> (pc = "done")

\* the run is over: the header, EPOCHS records, the last one of epoch
\* EPOCHS - 1, and the summary
C7_Witness ==
    /\ pc = "done"
    /\ Len(out) = EPOCHS + 2
    /\ out[1].kind = "header"
    /\ out[EPOCHS + 1].kind = "record"
    /\ out[EPOCHS + 1].epoch = EPOCHS - 1
    /\ out[EPOCHS + 2].kind = "summary"

\* C8: std_dev is the sum over the BUCKETS counts of |count - mean| divided
\* by BUCKETS, with mean the truncated integer mean sum / BUCKETS; it is never
\* negative; and for BUCKETS equal counts c the record is min = max = mean =
\* median = mode = c, spread = 0, mode_count = BUCKETS, deviation 0.
C8_Deviation ==
    [][(pc = "analyze_call" /\ pc' = "analyze_done") =>
          LET mean == SumSeq[buckets] \div BUCKETS
              total == SumSeq[[i \in 1..BUCKETS |->
                                  IF buckets[i] >= mean THEN buckets[i] - mean
                                  ELSE mean - buckets[i]]]
          IN  /\ analysis'.mean = mean
              /\ analysis'.std_dev = [num |-> total, den |-> BUCKETS]
              /\ analysis'.std_dev.num >= 0
              /\ \A c \in Range(buckets) :
                    Range(buckets) = {c} =>
                        analysis' =
                            [min |-> c, max |-> c, spread |-> 0, mean |-> c,
                             median |-> c, mode |-> c, mode_count |-> BUCKETS,
                             std_dev |-> [num |-> 0, den |-> BUCKETS]]]_vars

\* an analysis whose mean was truncated and whose deviation is positive
C8_Witness ==
    /\ pc = "analyze_done"
    /\ SumSeq[buckets] % BUCKETS # 0
    /\ analysis.mean = SumSeq[buckets] \div BUCKETS
    /\ analysis.std_dev.num > 0

\* the index of an identifier in an epoch, from a hasher seeded for the epoch
\* and fed nothing else
IndexOf(e, id) ==
    FromLeBytes[AddressToBucketWithEpochHasher(BucketsUsize, NewWithSeed(e), id)]

\* C9: during the assignment loop of an epoch the hasher prototype stays the
\* hasher seeded with the epoch, and the counter of every bucket is the
\* number of identifiers processed so far whose index, a function of the
\* epoch and the identifier alone, is that bucket: neither the position of
\* an identifier nor the identifiers before it matter, so the order of the
\* dataset does not change the array.
C9_FreshHasher ==
    pc = "assign" =>
        /\ hasher = NewWithSeed(epoch)
        /\ hasher.data = <<>>
        /\ \A ix \in {[k \in 1..(next - 1) |-> IndexOf(epoch, addresses[k])]} :
              buckets = [b \in 1..BUCKETS |->
                            Cardinality({ k \in 1..(next - 1) : ix[k] = b - 1 })]

\* two different identifiers were assigned to two different buckets
C9_Witness ==
    /\ pc = "assign"
    /\ next = 3
    /\ addresses[1] # addresses[2]
    /\ assigned[1] # assigned[2]
    /\ SumSeq[buckets] = 2

IsAscending(s) == \A i \in 1..(Len(s) - 1) : s[i] <= s[i + 1]

\* C10: analyze_buckets changes the caller's array only by sorting it: after
\* the call it is ascending and holds the same counts as before, each as
\* often as before; min is its element 0, max its element BUCKETS - 1 and
\* median its single element BUCKETS / 2 (0-based).
C10_SortsInPlace ==
    [][(pc = "analyze_call" /\ pc' = "analyze_done") =>
          /\ IsAscending(buckets')
          /\ Len(buckets') = Len(buckets)
          /\ \A v \in Range(buckets) \cup Range(buckets') :
                Occurrences(buckets', v) = Occurrences(buckets, v)
          /\ SumSeq[buckets'] = SumSeq[buckets]
          /\ analysis'.min = buckets'[1]
          /\ analysis'.max = buckets'[BUCKETS]
          /\ analysis'.median = buckets'[(BUCKETS \div 2) + 1]]_vars

\* an analysis of an array whose two middle elements differ: the median is
\* the upper one
C10_Witness ==
    /\ pc = "analyze_done"
    /\ buckets[BUCKETS \div 2] < buckets[(BUCKETS \div 2) + 1]
    /\ analysis.median = buckets[(BUCKETS \div 2) + 1]
    /\ IsAscending(buckets)

====
